---- MODULE Spec2Model ----
(***************************************************************************)
(* word_compare.py: the /compare handler of the document comparison        *)
(* service.  Two uploaded files are converted to text (extract_text), the  *)
(* texts are diffed line by line with difflib.unified_diff (n=2) and the   *)
(* diff is rendered as HTML parts (generate_email_friendly_diff); the      *)
(* word statistics are computed from the two full texts.                   *)
(*                                                                         *)
(* Strings are sequences of one-character strings, so that lower(),        *)
(* endswith(), "in", splitlines(), split() and startswith() are computed   *)
(* as Python computes them.                                                *)
(***************************************************************************)
EXTENDS Integers, Sequences, FiniteSets, TLC

VARIABLES
    pc,             \* position of compare_documents in its body
    files,          \* request.files: field name -> uploaded file
    original_text,  \* local of compare_documents (line 88)
    final_text,     \* local of compare_documents (line 89)
    opcodes,        \* the edit script of the SequenceMatcher unified_diff makes
    diff,           \* local of generate_email_friendly_diff (line 41): its lines
    html_diff,      \* local of compare_documents (line 91): the html parts
    response,       \* what compare_documents returns: status and json body
    calls           \* history: the functions compare_documents has called

vars == <<pc, files, original_text, final_text, opcodes, diff, html_diff, response, calls>>

(***************************************************************************)
(* Bounds of the model.                                                    *)
(***************************************************************************)
\* longest page text, in characters, of the character-level specification
MaxText == 2
\* longest original document, in lines, of the line-level specification
MaxLines == 7
\* longest final document, in lines, of the line-level specification
MaxFinalLines == 5

(***************************************************************************)
(* Python values and string methods.                                       *)
(***************************************************************************)
\* Python's None where a string is expected (no one-character string).
None == <<"<None>">>

\* (x or ""): None and "" both give "".
OrEmpty(x) == IF x = None THEN <<>> ELSE x

UpperCase == <<"A","B","C","D","E","F","G","H","I","J","K","L","M",
               "N","O","P","Q","R","S","T","U","V","W","X","Y","Z">>
LowerCase == <<"a","b","c","d","e","f","g","h","i","j","k","l","m",
               "n","o","p","q","r","s","t","u","v","w","x","y","z">>

\* str.lower() of one character.
LowerChar(c) ==
    IF \E i \in 1..Len(UpperCase) : UpperCase[i] = c
    THEN LowerCase[CHOOSE i \in 1..Len(UpperCase) : UpperCase[i] = c]
    ELSE c

\* str.lower()
Lower(s) == [i \in 1..Len(s) |-> LowerChar(s[i])]

\* str.startswith(prefix)
StartsWith(s, prefix) ==
    /\ Len(prefix) <= Len(s)
    /\ \A i \in 1..Len(prefix) : s[i] = prefix[i]

\* str.endswith(suffix)
EndsWith(s, suffix) ==
    /\ Len(suffix) <= Len(s)
    /\ \A i \in 1..Len(suffix) : s[Len(s) - Len(suffix) + i] = suffix[i]

\* (sub in s)
Contains(s, sub) ==
    \E k \in 0..(Len(s) - Len(sub)) :
        \A i \in 1..Len(sub) : s[k + i] = sub[i]

\* The line boundaries of str.splitlines() and the whitespace of str.split().
LineBreaks == {"\n", "\r", "\f"}
WhiteSpace == {" ", "\t", "\n", "\r", "\f"}

RECURSIVE JoinFrom(_, _)
JoinFrom(blocks, i) ==
    IF i > Len(blocks) THEN <<>>
    ELSE IF i = Len(blocks) THEN blocks[i]
    ELSE blocks[i] \o <<"\n">> \o JoinFrom(blocks, i + 1)

\* '\n'.join(blocks)
Join(blocks) == JoinFrom(blocks, 1)

RECURSIVE SplitLinesFrom(_, _, _)
SplitLinesFrom(s, i, cur) ==
    IF i > Len(s) THEN (IF cur = <<>> THEN <<>> ELSE <<cur>>)
    ELSE IF s[i] \in LineBreaks
    THEN LET crlf == s[i] = "\r" /\ i < Len(s) /\ s[i + 1] = "\n"
         IN  <<cur>> \o SplitLinesFrom(s, IF crlf THEN i + 2 ELSE i + 1, <<>>)
    ELSE SplitLinesFrom(s, i + 1, Append(cur, s[i]))

\* str.splitlines(): the line breaks are dropped, "\r\n" is one break, and a
\* text that ends with a line break has no empty last line.
SplitLines(s) == SplitLinesFrom(s, 1, <<>>)

RECURSIVE SplitOn(_, _, _, _, _)
SplitOn(s, i, cur, seps, keepEmpty) ==
    LET out == IF cur = <<>> /\ ~keepEmpty THEN <<>> ELSE <<cur>>
    IN  IF i > Len(s) THEN out
        ELSE IF s[i] \in seps
        THEN out \o SplitOn(s, i + 1, <<>>, seps, keepEmpty)
        ELSE SplitOn(s, i + 1, Append(cur, s[i]), seps, keepEmpty)

\* The mutant of Split: str.split(" "), where every single space separates
\* and empty tokens are kept.
SplitSingleSpace(s) == SplitOn(s, 1, <<>>, {" "}, TRUE)

\* str.split(): runs of whitespace separate, no empty token.
Split(s) == SplitOn(s, 1, <<>>, WhiteSpace, FALSE)

(***************************************************************************)
(* Uploaded files.  A file is its declared filename and media type (each   *)
(* possibly None) and its bytes.  The bytes are modelled by what the two   *)
(* parsers make of them: kind "docx" is a Word document with the given     *)
(* paragraphs, "pdf" a PDF with the given page texts (None for a page      *)
(* without extractable text), "zip" a zip archive that is no Word          *)
(* document, "junk" anything else.                                         *)
(***************************************************************************)
NoExc == [type |-> "", msg |-> <<>>]

\* docx.Document(BytesIO(file_bytes)) and doc.paragraphs
Document(file_bytes) ==
    CASE file_bytes.kind = "docx" ->
            [exc |-> NoExc, blocks |-> file_bytes.blocks]
      [] file_bytes.kind = "zip" ->
            [exc |-> [type |-> "ValueError", msg |-> <<"file is not a Word file">>],
             blocks |-> <<>>]
      [] OTHER ->
            [exc |-> [type |-> "BadZipFile", msg |-> <<"File is not a zip file">>],
             blocks |-> <<>>]

\* pypdf.PdfReader(BytesIO(file_bytes)) and pdf.pages
PdfReader(file_bytes) ==
    CASE file_bytes.kind = "pdf" ->
            [exc |-> NoExc, blocks |-> file_bytes.blocks]
      [] OTHER ->
            [exc |-> [type |-> "PdfReadError", msg |-> <<"invalid pdf header">>],
             blocks |-> <<>>]

extract_text_from_docx(file_bytes) ==
    LET doc == Document(file_bytes)
    IN  IF doc.exc # NoExc THEN [exc |-> doc.exc, text |-> <<>>]
        ELSE [exc |-> NoExc, text |-> Join(doc.blocks)]

extract_text_from_pdf(file_bytes) ==
    LET pdf  == PdfReader(file_bytes)
        text == [i \in 1..Len(pdf.blocks) |-> OrEmpty(pdf.blocks[i])]
    IN  IF pdf.exc # NoExc THEN [exc |-> pdf.exc, text |-> <<>>]
        ELSE [exc |-> NoExc, text |-> Join(text)]

SuffixDocx == <<".","d","o","c","x">>
SuffixPdf  == <<".","p","d","f">>
SignatureDocx == <<"w","o","r","d","p","r","o","c","e","s","s","i","n","g","m","l",
                   ".","d","o","c","u","m","e","n","t">>
SignaturePdf  == <<"p","d","f">>

\* The extractor the filename suffix names, "" when it names none.
SuffixFormat(file_storage) ==
    LET filename == Lower(OrEmpty(file_storage.filename))
    IN  IF EndsWith(filename, SuffixDocx) THEN "docx"
        ELSE IF EndsWith(filename, SuffixPdf) THEN "pdf"
        ELSE ""

\* The extractor the declared media type names, "" when it names none.
MediaFormat(file_storage) ==
    LET content_type == Lower(OrEmpty(file_storage.content_type))
    IN  IF Contains(content_type, SignatureDocx) THEN "docx"
        ELSE IF Contains(content_type, SignaturePdf) THEN "pdf"
        ELSE ""

\* The mutant of DetectFormat: the filename alone decides.
DetectFormatByName(file_storage) ==
    LET filename == Lower(OrEmpty(file_storage.filename))
    IN  IF EndsWith(filename, SuffixDocx) THEN "docx"
        ELSE IF EndsWith(filename, SuffixPdf) THEN "pdf"
        ELSE ""

\* The branch extract_text takes: "docx" (line 30), "pdf" (line 32) or
\* "" (line 34).
DetectFormat(file_storage) ==
    LET filename     == Lower(OrEmpty(file_storage.filename))
        content_type == Lower(OrEmpty(file_storage.content_type))
    IN  IF EndsWith(filename, SuffixDocx) \/ Contains(content_type, SignatureDocx)
        THEN "docx"
        ELSE IF EndsWith(filename, SuffixPdf) \/ Contains(content_type, SignaturePdf)
        THEN "pdf"
        ELSE ""

\* extract_text: the extractor it called ("" for none), the exception it
\* raised (NoExc for none) and the text it returned.
extract_text(file_storage) ==
    LET filename     == Lower(OrEmpty(file_storage.filename))
        content_type == Lower(OrEmpty(file_storage.content_type))
        format       == DetectFormat(file_storage)
        out          == IF format = "docx"
                        THEN extract_text_from_docx(file_storage.body)
                        ELSE extract_text_from_pdf(file_storage.body)
    IN  IF format = ""
        THEN [extractor |-> "",
              exc |-> [type |-> "ValueError",
                       msg  |-> <<"Unsupported file type: ">>
                                \o (IF filename # <<>> THEN filename ELSE content_type)],
              text |-> <<>>]
        ELSE [extractor |-> format, exc |-> out.exc, text |-> out.text]

(***************************************************************************)
(* difflib.  Sequences of lines are indexed as in Python: positions start  *)
(* at 0 and ranges lo..hi exclude hi, so line i of a is a[i + 1] here.     *)
(* Below 200 lines difflib treats no line as junk or popular, so every     *)
(* line of b is a candidate of every match.                                *)
(***************************************************************************)
Min(x, y) == IF x < y THEN x ELSE y
Max(x, y) == IF x > y THEN x ELSE y

\* a[i:i+k] == b[j:j+k], inside a[alo:ahi] and b[blo:bhi]
IsBlock(a, b, ahi, bhi, i, j, k) ==
    /\ i + k <= ahi
    /\ j + k <= bhi
    /\ \A d \in 1..k : a[i + d] = b[j + d]

RECURSIVE LongestSize(_, _, _, _, _, _, _)
LongestSize(a, b, alo, ahi, blo, bhi, k) ==
    IF k = 0 THEN 0
    ELSE IF \E i \in alo..(ahi - k), j \in blo..(bhi - k) :
                IsBlock(a, b, ahi, bhi, i, j, k)
    THEN k
    ELSE LongestSize(a, b, alo, ahi, blo, bhi, k - 1)

\* SequenceMatcher.find_longest_match: the longest block common to a[alo:ahi]
\* and b[blo:bhi]; of all the longest ones, the one that starts earliest in
\* a, and of those the one that starts earliest in b.  (alo, blo, 0) when
\* there is no common line.
find_longest_match(a, b, alo, ahi, blo, bhi) ==
    LET k  == LongestSize(a, b, alo, ahi, blo, bhi, Min(ahi - alo, bhi - blo))
        I  == {i \in alo..(ahi - k) :
                  \E j \in blo..(bhi - k) : IsBlock(a, b, ahi, bhi, i, j, k)}
        bi == CHOOSE i \in I : \A x \in I : i <= x
        J  == {j \in blo..(bhi - k) : IsBlock(a, b, ahi, bhi, bi, j, k)}
        bj == CHOOSE j \in J : \A x \in J : j <= x
    IN  IF k = 0 THEN [i |-> alo, j |-> blo, size |-> 0]
        ELSE [i |-> bi, j |-> bj, size |-> k]

\* The loop of get_matching_blocks over its queue, and the sort: the blocks
\* left of the longest match, the match, the blocks right of it.
RECURSIVE MatchQueue(_, _, _, _, _, _)
MatchQueue(a, b, alo, ahi, blo, bhi) ==
    LET x == find_longest_match(a, b, alo, ahi, blo, bhi)
    IN  IF x.size = 0 THEN <<>>
        ELSE (IF alo < x.i /\ blo < x.j
              THEN MatchQueue(a, b, alo, x.i, blo, x.j) ELSE <<>>)
             \o <<x>>
             \o (IF x.i + x.size < ahi /\ x.j + x.size < bhi
                 THEN MatchQueue(a, b, x.i + x.size, ahi, x.j + x.size, bhi)
                 ELSE <<>>)

\* The second loop of get_matching_blocks: adjacent blocks become one.
RECURSIVE Collapse(_, _, _)
Collapse(blocks, n, cur) ==
    IF n > Len(blocks)
    THEN (IF cur.size > 0 THEN <<cur>> ELSE <<>>)
    ELSE LET x == blocks[n]
         IN  IF cur.i + cur.size = x.i /\ cur.j + cur.size = x.j
             THEN Collapse(blocks, n + 1, [cur EXCEPT !.size = cur.size + x.size])
             ELSE (IF cur.size > 0 THEN <<cur>> ELSE <<>>)
                  \o Collapse(blocks, n + 1, x)

\* SequenceMatcher.get_matching_blocks, with its closing (la, lb, 0) block.
get_matching_blocks(a, b) ==
    Collapse(MatchQueue(a, b, 0, Len(a), 0, Len(b)), 1,
             [i |-> 0, j |-> 0, size |-> 0])
    \o <<[i |-> Len(a), j |-> Len(b), size |-> 0]>>

Opcode(tag, i1, i2, j1, j2) ==
    [tag |-> tag, i1 |-> i1, i2 |-> i2, j1 |-> j1, j2 |-> j2]

RECURSIVE OpcodesFrom(_, _, _, _)
OpcodesFrom(blocks, n, i, j) ==
    IF n > Len(blocks) THEN <<>>
    ELSE LET x   == blocks[n]
             tag == IF i < x.i /\ j < x.j THEN "replace"
                    ELSE IF i < x.i THEN "delete"
                    ELSE IF j < x.j THEN "insert"
                    ELSE ""
         IN  (IF tag # "" THEN <<Opcode(tag, i, x.i, j, x.j)>> ELSE <<>>)
             \o (IF x.size > 0
                 THEN <<Opcode("equal", x.i, x.i + x.size, x.j, x.j + x.size)>>
                 ELSE <<>>)
             \o OpcodesFrom(blocks, n + 1, x.i + x.size, x.j + x.size)

\* SequenceMatcher.get_opcodes
get_opcodes(a, b) == OpcodesFrom(get_matching_blocks(a, b), 1, 0, 0)

\* The mutant of ContextLines: n left at the default of unified_diff.
DefaultContextLines == 2 + 1

\* n of the unified_diff call: the lines of context around a change.
ContextLines == 2

\* The two fix-ups of get_grouped_opcodes: a leading and a trailing 'equal'
\* keep their n lines next to the change.
FixLeading(codes, n) ==
    LET c == codes[1]
    IN  IF c.tag = "equal"
        THEN [codes EXCEPT ![1] =
                 Opcode(c.tag, Max(c.i1, c.i2 - n), c.i2, Max(c.j1, c.j2 - n), c.j2)]
        ELSE codes

FixTrailing(codes, n) ==
    LET c == codes[Len(codes)]
    IN  IF c.tag = "equal"
        THEN [codes EXCEPT ![Len(codes)] =
                 Opcode(c.tag, c.i1, Min(c.i2, c.i1 + n), c.j1, Min(c.j2, c.j1 + n))]
        ELSE codes

\* The mutant of SplitAbove: an unchanged range longer than n, not n + n,
\* ends a group.
SplitAboveNarrow(n) == n

\* nn of get_grouped_opcodes: an unchanged range longer than this ends a group.
SplitAbove(n) == n + n

RECURSIVE GroupLoop(_, _, _, _)
GroupLoop(codes, k, group, n) ==
    IF k > Len(codes)
    THEN (IF group # <<>> /\ ~(Len(group) = 1 /\ group[1].tag = "equal")
          THEN <<group>> ELSE <<>>)
    ELSE LET c == codes[k]
         IN  IF c.tag = "equal" /\ c.i2 - c.i1 > SplitAbove(n)
             THEN <<Append(group, Opcode(c.tag, c.i1, Min(c.i2, c.i1 + n),
                                         c.j1, Min(c.j2, c.j1 + n)))>>
                  \o GroupLoop(codes, k + 1,
                               <<Opcode(c.tag, Max(c.i1, c.i2 - n), c.i2,
                                        Max(c.j1, c.j2 - n), c.j2)>>, n)
             ELSE GroupLoop(codes, k + 1, Append(group, c), n)

\* The mutant of get_grouped_opcodes: every opcode in one group, the
\* unchanged ranges in full.
get_ungrouped_opcodes(answer, n) ==
    IF answer = <<>> THEN <<>> ELSE <<answer>>

\* SequenceMatcher.get_grouped_opcodes(n): the groups (hunks) of opcodes,
\* where answer is what the matcher's get_opcodes() returns.
get_grouped_opcodes(answer, n) ==
    LET codes  == IF answer = <<>> THEN <<Opcode("equal", 0, 1, 0, 1)>> ELSE answer
    IN  GroupLoop(FixTrailing(FixLeading(codes, n), n), 1, <<>>, n)

Digit == <<"0","1","2","3","4","5","6","7","8","9">>

\* '{}'.format(k) of a natural number
RECURSIVE Decimal(_)
Decimal(k) ==
    IF k < 10 THEN <<Digit[k + 1]>>
    ELSE Decimal(k \div 10) \o <<Digit[(k % 10) + 1]>>

\* difflib._format_range_unified
format_range_unified(start, stop) ==
    LET length == stop - start
    IN  IF length = 1 THEN Decimal(start + 1)
        ELSE Decimal(IF length = 0 THEN start ELSE start + 1)
             \o <<",">> \o Decimal(length)

\* marker + line, for every line of lines[lo:hi]
Marked(marker, lines, lo, hi) ==
    [k \in 1..(hi - lo) |-> <<marker>> \o lines[lo + k]]

\* The lines unified_diff yields for one opcode of a group.
OpcodeLines(a, b, c) ==
    IF c.tag = "equal" THEN Marked(" ", a, c.i1, c.i2)
    ELSE (IF c.tag \in {"replace", "delete"}
          THEN Marked("-", a, c.i1, c.i2) ELSE <<>>)
         \o (IF c.tag \in {"replace", "insert"}
             THEN Marked("+", b, c.j1, c.j2) ELSE <<>>)

RECURSIVE GroupLines(_, _, _, _)
GroupLines(a, b, group, k) ==
    IF k > Len(group) THEN <<>>
    ELSE OpcodeLines(a, b, group[k]) \o GroupLines(a, b, group, k + 1)

\* '@@ -{} +{} @@' for one group
HunkHeader(group) ==
    LET first == group[1]
        last  == group[Len(group)]
    IN  <<"@","@"," ","-">> \o format_range_unified(first.i1, last.i2)
        \o <<" ","+">> \o format_range_unified(first.j1, last.j2)
        \o <<" ","@","@">>

RECURSIVE HunksFrom(_, _, _, _)
HunksFrom(a, b, groups, g) ==
    IF g > Len(groups) THEN <<>>
    ELSE <<HunkHeader(groups[g])>> \o GroupLines(a, b, groups[g], 1)
         \o HunksFrom(a, b, groups, g + 1)

\* difflib.unified_diff(a, b, lineterm='', n=n): the two file headers once,
\* when there is a group at all, then every group's header and lines.
\* answer is the get_opcodes() of the SequenceMatcher(None, a, b) it makes.
unified_diff(a, b, answer, n) ==
    LET groups == get_grouped_opcodes(answer, n)
    IN  IF groups = <<>> THEN <<>>
        ELSE << <<"-","-","-"," ">>, <<"+","+","+"," ">> >>
             \o HunksFrom(a, b, groups, 1)

(***************************************************************************)
(* generate_email_friendly_diff.  An html part is the template it was made *)
(* from ("div", "REMOVED", "ADDED", "unchanged", "No text changes          *)
(* detected", "/div") and the text put into the template; the function     *)
(* returns the parts joined by "\n".                                       *)
(***************************************************************************)
Part(kind, text) == [kind |-> kind, text |-> text]

\* line.startswith(('---', '+++', '@@')) (line 54)
IsHeaderLine(line) ==
    \/ StartsWith(line, <<"-","-","-">>)
    \/ StartsWith(line, <<"+","+","+">>)
    \/ StartsWith(line, <<"@","@">>)

\* The loop over the diff (lines 52-70) and the two appends after it.
RECURSIVE RenderLoop(_, _, _, _)
RenderLoop(lines, k, html_parts, change_count) ==
    IF k > Len(lines)
    THEN html_parts
         \o (IF change_count = 0
             THEN <<Part("No text changes detected", <<>>)>> ELSE <<>>)
         \o <<Part("/div", <<>>)>>
    ELSE LET line == lines[k]
         IN  IF IsHeaderLine(line)
             THEN RenderLoop(lines, k + 1, html_parts, change_count)
             ELSE IF StartsWith(line, <<"-">>)
             THEN RenderLoop(lines, k + 1,
                             Append(html_parts, Part("REMOVED", Tail(line))),
                             change_count + 1)
             ELSE IF StartsWith(line, <<"+">>)
             THEN RenderLoop(lines, k + 1,
                             Append(html_parts, Part("ADDED", Tail(line))),
                             change_count + 1)
             ELSE IF StartsWith(line, <<" ">>)
             THEN RenderLoop(lines, k + 1,
                             Append(html_parts, Part("unchanged", Tail(line))),
                             change_count)
             ELSE RenderLoop(lines, k + 1, html_parts, change_count)

\* The function's result (html), with the diff it looped over and the edit
\* script behind that diff.
generate_email_friendly_diff(original, final) ==
    LET a      == SplitLines(original)
        b      == SplitLines(final)
        answer == get_opcodes(a, b)
        lines  == unified_diff(a, b, answer, ContextLines)
    IN  [opcodes |-> answer,
         diff    |-> lines,
         html    |-> RenderLoop(lines, 1, <<Part("div", <<>>)>>, 0)]

(***************************************************************************)
(* compare_documents.                                                      *)
(***************************************************************************)
NoStats == [original_words |-> 0, final_words |-> 0, word_difference |-> 0]

\* jsonify(...) of a dictionary with the given keys, and the status.
Json(status, fields, error, html, stats) ==
    [status |-> status,
     body   |-> [fields |-> fields, error |-> error, success |-> "success" \in fields,
                 html_diff |-> html, stats |-> stats]]

NoResponse == Json(0, {}, <<>>, <<>>, NoStats)

\* The two except clauses (lines 107-110).
Handle(exc) ==
    IF exc.type = "ValueError"
    THEN Json(400, {"error"}, exc.msg, <<>>, NoStats)
    ELSE Json(500, {"error"}, exc.msg, <<>>, NoStats)

Call(fn, arg) == [fn |-> fn, arg |-> arg]

\* The calls extract_text(file) makes.
ExtractCalls(arg, out) ==
    <<Call("extract_text", arg)>>
    \o (IF out.extractor = "docx" THEN <<Call("extract_text_from_docx", arg)>>
        ELSE IF out.extractor = "pdf" THEN <<Call("extract_text_from_pdf", arg)>>
        ELSE <<>>)

\* Lines 82-86: both files must be in the request.
CheckFiles ==
    /\ pc = "files"
    /\ IF "original" \notin DOMAIN files \/ "final" \notin DOMAIN files
       THEN /\ response' = Json(400, {"error"},
                                <<"Both original and final files required">>,
                                <<>>, NoStats)
            /\ pc' = "done"
       ELSE /\ pc' = "original"
            /\ UNCHANGED response
    /\ UNCHANGED <<files, original_text, final_text, opcodes, diff, html_diff, calls>>

\* The mutant of ExtractOriginal: a failure is caught and the comparison
\* goes on with an empty original text.
ExtractOriginalContinue ==
    /\ pc = "original"
    /\ LET out == extract_text(files.original)
       IN  /\ calls' = calls \o ExtractCalls("original", out)
           /\ original_text' = out.text
    /\ pc' = "final"
    /\ UNCHANGED <<files, final_text, opcodes, diff, html_diff, response>>

\* Line 88, and the except clauses when extract_text raises.
ExtractOriginal ==
    /\ pc = "original"
    /\ LET out == extract_text(files.original)
       IN  /\ calls' = calls \o ExtractCalls("original", out)
           /\ IF out.exc # NoExc
              THEN /\ response' = Handle(out.exc)
                   /\ pc' = "done"
                   /\ UNCHANGED original_text
              ELSE /\ original_text' = out.text
                   /\ pc' = "final"
                   /\ UNCHANGED response
    /\ UNCHANGED <<files, final_text, opcodes, diff, html_diff>>

\* Line 89, and the except clauses when extract_text raises.
ExtractFinal ==
    /\ pc = "final"
    /\ LET out == extract_text(files.final)
       IN  /\ calls' = calls \o ExtractCalls("final", out)
           /\ IF out.exc # NoExc
              THEN /\ response' = Handle(out.exc)
                   /\ pc' = "done"
                   /\ UNCHANGED final_text
              ELSE /\ final_text' = out.text
                   /\ pc' = "diff"
                   /\ UNCHANGED response
    /\ UNCHANGED <<files, original_text, opcodes, diff, html_diff>>

\* Line 91.
GenerateDiff ==
    /\ pc = "diff"
    /\ LET out == generate_email_friendly_diff(original_text, final_text)
       IN  /\ opcodes' = out.opcodes
           /\ diff' = out.diff
           /\ html_diff' = out.html
    /\ calls' = Append(calls, Call("generate_email_friendly_diff", "both"))
    /\ pc' = "stats"
    /\ UNCHANGED <<files, original_text, final_text, response>>

\* The word statistics (lines 93-95).
WordStats(original, final) ==
    LET original_words == Len(Split(original))
        final_words    == Len(Split(final))
        word_diff      == final_words - original_words
    IN  [original_words |-> original_words, final_words |-> final_words,
         word_difference |-> word_diff]

\* Lines 93-105.
Respond ==
    /\ pc = "stats"
    /\ response' = Json(200, {"success", "html_diff", "stats"}, <<>>, html_diff,
                        WordStats(original_text, final_text))
    /\ pc' = "done"
    /\ UNCHANGED <<files, original_text, final_text, opcodes, diff, html_diff, calls>>

Next ==
    \/ CheckFiles
    \/ ExtractOriginal
    \/ ExtractFinal
    \/ GenerateDiff
    \/ Respond

(***************************************************************************)
(* The requests.                                                           *)
(***************************************************************************)
Upload(filename, content_type, kind, blocks) ==
    [filename |-> filename, content_type |-> content_type,
     body |-> [kind |-> kind, blocks |-> blocks]]

\* The state on entry to compare_documents with the given request.files.
Start(request_files) ==
    /\ pc = "files"
    /\ files = request_files
    /\ original_text = <<>>
    /\ final_text = <<>>
    /\ opcodes = <<>>
    /\ diff = <<>>
    /\ html_diff = <<>>
    /\ response = NoResponse
    /\ calls = <<>>

Filenames ==
    { None,
      <<"r","e","p","o","r","t",".","p","d","f">>,
      <<"R","E","P","O","R","T",".","P","D","F">>,
      <<"r","e","p","o","r","t",".","d","o","c","x">>,
      <<"r","e","p","o","r","t",".","t","x","t">>,
      <<"r","e","p","o","r","t">> }

ContentTypes ==
    { None,
      <<"a","p","p","l","i","c","a","t","i","o","n","/","p","d","f">>,
      <<"a","p","p","l","i","c","a","t","i","o","n","/","v","n","d",".","o","p","e",
        "n","x","m","l","f","o","r","m","a","t","s","-","o","f","f","i","c","e","d",
        "o","c","u","m","e","n","t",".","w","o","r","d","p","r","o","c","e","s","s",
        "i","n","g","m","l",".","d","o","c","u","m","e","n","t">>,
      <<"t","e","x","t","/","p","l","a","i","n">> }

\* The bytes of the format-level specification: a Word document with an
\* empty middle paragraph, a PDF with a page without text, a zip archive
\* that is no Word document, and bytes that are neither.
Bodies ==
    { [kind |-> "docx", blocks |-> << <<"H","i">>, <<>>, <<"y","o","u">> >>],
      [kind |-> "pdf",  blocks |-> << None, <<"H","i"," ","y","o","u">> >>],
      [kind |-> "zip",  blocks |-> <<>>],
      [kind |-> "junk", blocks |-> <<>>] }

Uploads ==
    { [filename |-> f, content_type |-> c, body |-> b] :
        f \in Filenames, c \in ContentTypes, b \in Bodies }

\* Every request over the uploads, with either file possibly missing.
Init ==
    \E S \in SUBSET {"original", "final"} :
        \E request_files \in [S -> Uploads] : Start(request_files)

Spec == Init /\ [][Next]_vars

\* The sequences over S of length at most n.
SeqsUpTo(S, n) == UNION {[1..k -> S] : k \in 0..n}

TextChars == {"a", "-", "+", "@", " ", "\n"}

\* The texts of the documented examples: a replaced line, a removed line.
ScenarioTexts ==
    { <<"H","e","l","l","o"," ","w","o","r","l","d">>,
      <<"H","e","l","l","o"," ","b","r","a","v","e"," ","w","o","r","l","d">>,
      <<"L","i","n","e","1","\n","L","i","n","e","2","\n","L","i","n","e","3">>,
      <<"L","i","n","e","1","\n","L","i","n","e","3">> }

\* Character level: two one-page PDFs with every page text of at most
\* MaxText characters, and the documented examples.
InitText ==
    \E t1, t2 \in SeqsUpTo(TextChars, MaxText) \cup ScenarioTexts :
        Start([original |-> Upload(<<"a",".","p","d","f">>, None, "pdf", <<t1>>),
               final    |-> Upload(<<"b",".","p","d","f">>, None, "pdf", <<t2>>)])

SpecText == InitText /\ [][Next]_vars

WindowLines == {<<"a">>, <<"b">>}

\* Line level: two Word documents, the original with every sequence of at
\* most MaxLines paragraphs and the final with every sequence of at most
\* MaxFinalLines paragraphs.
InitWindow ==
    \E p1 \in SeqsUpTo(WindowLines, MaxLines),
       p2 \in SeqsUpTo(WindowLines, MaxFinalLines) :
        Start([original |-> Upload(<<"a",".","d","o","c","x">>, None, "docx", p1),
               final    |-> Upload(<<"b",".","d","o","c","x">>, None, "docx", p2)])

SpecWindow == InitWindow /\ [][Next]_vars

(***************************************************************************)
(* What the properties below speak about.                                  *)
(***************************************************************************)
Done == pc = "done"

\* compare_documents has answered with the diff and the statistics.
Compared == pc = "done" /\ response.status = 200

original_lines == SplitLines(original_text)
final_lines    == SplitLines(final_text)

IsSegment(part)      == part.kind \in {"unchanged", "REMOVED", "ADDED"}
IsChange(part)       == part.kind \in {"REMOVED", "ADDED"}
IsUnchanged(part)    == part.kind = "unchanged"
IsOriginalSide(part) == part.kind \in {"unchanged", "REMOVED"}
IsFinalSide(part)    == part.kind \in {"unchanged", "ADDED"}
IsIndicator(part)    == part.kind = "No text changes detected"

TextOf(parts) == [i \in 1..Len(parts) |-> parts[i].text]

\* The rendered parts of the response and its segments, in output order.
Rendered == response.body.html_diff
Segments == SelectSeq(Rendered, IsSegment)

RECURSIVE SubseqFrom(_, _, _, _)
SubseqFrom(s, i, t, j) ==
    IF i > Len(s) THEN TRUE
    ELSE IF j > Len(t) THEN FALSE
    ELSE IF s[i] = t[j] THEN SubseqFrom(s, i + 1, t, j + 1)
    ELSE SubseqFrom(s, i, t, j + 1)

\* s is t with some elements left out.
IsSubseq(s, t) == SubseqFrom(s, 1, t, 1)

Sides == {"original", "final"}

\* extract_text was called on the file of this side.
Extracted(side) == \E k \in 1..Len(calls) : calls[k] = Call("extract_text", side)

\* The extractors called on the file of this side.
ExtractorsOf(side) ==
    {calls[k].fn : k \in {x \in 1..Len(calls) :
                            /\ calls[x].arg = side
                            /\ calls[x].fn # "extract_text"}}

ExtractorName(format) ==
    IF format = "docx" THEN "extract_text_from_docx" ELSE "extract_text_from_pdf"

\* Neither the filename suffix nor the media type names a format.
Unrecognized(file_storage) ==
    SuffixFormat(file_storage) = "" /\ MediaFormat(file_storage) = ""

IsUnsupportedError(msg) == msg # <<>> /\ msg[1] = "Unsupported file type: "

C2_IdenticalTexts ==
    (Compared /\ original_text = final_text) =>
        /\ Segments = <<>>
        /\ \E k \in 1..Len(Rendered) : IsIndicator(Rendered[k])
        /\ response.body.stats.word_difference = 0

\* Two identical texts of several lines have been compared.
C2_Witness ==
    /\ Compared
    /\ original_text = final_text
    /\ Len(original_lines) = 3
    /\ response.body.stats.original_words = 3

(***************************************************************************)
(* C3 as stated: when the filename suffix names a supported format, the    *)
(* extractor called is the one of the suffix, whatever the media type.     *)
(***************************************************************************)
C3_SuffixFirst ==
    \A side \in Sides :
        (Extracted(side) /\ SuffixFormat(files[side]) # "") =>
            ExtractorsOf(side) = {ExtractorName(SuffixFormat(files[side]))}

(***************************************************************************)
(* C4: when neither the filename suffix nor the media type of a file names *)
(* a supported format, extract_text raises the unsupported-format error,   *)
(* no extractor is called on the file and the answer is a 400; when one of *)
(* them names a format an extractor is called and the error is not the     *)
(* unsupported-format error.                                               *)
(***************************************************************************)
C4_Unsupported ==
    \A side \in Sides :
        Extracted(side) =>
            IF Unrecognized(files[side])
            THEN /\ ExtractorsOf(side) = {}
                 /\ Done
                 /\ response.status = 400
                 /\ response.body.fields = {"error"}
                 /\ IsUnsupportedError(response.body.error)
            ELSE /\ ExtractorsOf(side) # {}
                 /\ calls[Len(calls)].arg = side =>
                       ~IsUnsupportedError(response.body.error)

\* "report.txt" without a media type has been refused.
C4_Witness ==
    /\ Done
    /\ Sides \subseteq DOMAIN files
    /\ files.original.filename = <<"r","e","p","o","r","t",".","t","x","t">>
    /\ files.original.content_type = None
    /\ response.status = 400
    /\ response.body.error =
          <<"Unsupported file type: ">> \o <<"r","e","p","o","r","t",".","t","x","t">>
    /\ calls = <<Call("extract_text", "original")>>

(***************************************************************************)
(* C5: a failing stage aborts the comparison.  The answer to a failure     *)
(* holds the error of the first failing stage and no html_diff or stats    *)
(* field; when the original fails the final is not extracted; and after    *)
(* any failure no diff is computed.                                        *)
(***************************************************************************)
C5_Abort ==
    LET both   == Sides \subseteq DOMAIN files
        o      == extract_text(files.original)
        f      == extract_text(files.final)
        diffed == \E k \in 1..Len(calls) :
                      calls[k].fn = "generate_email_friendly_diff"
    IN  /\ (Done /\ response.status # 200) => response.body.fields = {"error"}
        /\ (both /\ o.exc # NoExc) =>
              /\ \A k \in 1..Len(calls) : calls[k].arg = "original"
              /\ Done => (response.body.error = o.exc.msg /\ response.status # 200)
        /\ (both /\ o.exc = NoExc /\ f.exc # NoExc) =>
              /\ ~diffed
              /\ Done => (response.body.error = f.exc.msg /\ response.status # 200)

\* Both documents are bad; the answer is the failure of the original alone.
C5_Witness ==
    /\ Done
    /\ Sides \subseteq DOMAIN files
    /\ extract_text(files.original).exc.type = "BadZipFile"
    /\ extract_text(files.final).exc.type = "ValueError"
    /\ response.status = 500
    /\ response.body.error = <<"File is not a zip file">>

\* The words of a text counted without splitting it: the positions where a
\* character that is no whitespace follows the start or a whitespace.
WordStarts(s) ==
    Cardinality({i \in 1..Len(s) :
                    /\ s[i] \notin WhiteSpace
                    /\ (i = 1 \/ s[i - 1] \in WhiteSpace)})

(***************************************************************************)
(* C6: the reported counts are the numbers of whitespace-separated words   *)
(* of the two full texts, whatever the diff emits, and word_difference is  *)
(* final_words minus original_words.                                       *)
(***************************************************************************)
C6_WordDifference ==
    Compared =>
        LET stats == response.body.stats
        IN  /\ stats.original_words = WordStarts(original_text)
            /\ stats.final_words = WordStarts(final_text)
            /\ stats.word_difference = stats.final_words - stats.original_words

\* Three words against two, one line removed and the others context.
C6_Witness ==
    /\ Compared
    /\ response.body.stats.original_words = 3
    /\ response.body.stats.final_words = 2
    /\ response.body.stats.word_difference = -1
    /\ Len(Segments) = 3

(***************************************************************************)
(* C7 as stated: when the one line of the original is replaced by a        *)
(* different line, the output is one Removed segment with the whole        *)
(* original line followed by one Added segment with the whole final line   *)
(* and nothing else; "Hello world" against "Hello brave world" counts 2    *)
(* and 3 words, difference +1.                                             *)
(***************************************************************************)
C7_ReplacedLine ==
    (/\ Compared
     /\ Len(original_lines) = 1
     /\ Len(final_lines) = 1
     /\ original_lines # final_lines) =>
        /\ Segments = <<Part("REMOVED", original_lines[1]),
                        Part("ADDED", final_lines[1])>>
        /\ (/\ original_text = <<"H","e","l","l","o"," ","w","o","r","l","d">>
            /\ final_text = <<"H","e","l","l","o"," ","b","r","a","v","e"," ",
                              "w","o","r","l","d">>) =>
              response.body.stats =
                 [original_words |-> 2, final_words |-> 3, word_difference |-> 1]

RECURSIVE PickLines(_, _, _)
PickLines(lines, positions, i) ==
    IF i >= Len(lines) THEN <<>>
    ELSE (IF i \in positions THEN <<lines[i + 1]>> ELSE <<>>)
         \o PickLines(lines, positions, i + 1)

\* The edit script of the two line sequences.
EditScript == opcodes

\* The positions (from 0) of the original's unchanged lines.
UnchangedPositions ==
    {i \in 0..(Len(original_lines) - 1) :
        \E k \in 1..Len(EditScript) :
            /\ EditScript[k].tag = "equal"
            /\ EditScript[k].i1 <= i
            /\ i < EditScript[k].i2}

\* How many lines an unchanged line at position i is away from the change c:
\* 1 for the line next to it.
Distance(i, c) == IF i < c.i1 THEN c.i1 - i ELSE i - c.i2 + 1

\* The unchanged lines within r lines of a removed or added line.
WithinOfChange(r) ==
    {i \in UnchangedPositions :
        \E k \in 1..Len(EditScript) :
            /\ EditScript[k].tag # "equal"
            /\ Distance(i, EditScript[k]) <= r}

\* The hunks of the diff: its "@@" lines.
HunkCount ==
    Cardinality({k \in 1..Len(diff) : StartsWith(diff[k], <<"@","@">>)})

\* The unchanged ranges of more than r lines between two changes.
LongGaps(r) ==
    {k \in 2..(Len(EditScript) - 1) :
        /\ EditScript[k].tag = "equal"
        /\ EditScript[k].i2 - EditScript[k].i1 > r}

(***************************************************************************)
(* C8: the Unchanged segments are exactly the unchanged lines within 2     *)
(* lines of a removed or added line, each once and in order; changes with  *)
(* at most 4 unchanged lines between them share a hunk, so the diff has    *)
(* one hunk more than it has unchanged ranges of more than 4 lines         *)
(* between two changes.                                                    *)
(***************************************************************************)
C8_ContextWindow ==
    Compared =>
        /\ TextOf(SelectSeq(Segments, IsUnchanged)) =
              PickLines(original_lines, WithinOfChange(2), 0)
        /\ HunkCount =
              IF \E k \in 1..Len(EditScript) : EditScript[k].tag # "equal"
              THEN 1 + Cardinality(LongGaps(4))
              ELSE 0

\* Two removals with five unchanged lines between them: two hunks, and the
\* middle line is left out.
C8_Witness ==
    /\ Compared
    /\ Len(original_lines) = 7
    /\ Len(final_lines) = 5
    /\ HunkCount = 2
    /\ Len(SelectSeq(Segments, IsChange)) = 2
    /\ Len(SelectSeq(Segments, IsUnchanged)) = 4

(***************************************************************************)
(* C9 as stated: when an extractor fails on a recognized document, the     *)
(* answer is a client error (400), and the failure differs from the        *)
(* unsupported-format failure (a ValueError answered with 400) in its      *)
(* error type or in the status of the answer.                              *)
(***************************************************************************)
C9_ExtractionError ==
    \A side \in Sides :
        (/\ Done
         /\ ExtractorsOf(side) # {}
         /\ extract_text(files[side]).exc # NoExc) =>
            /\ response.status = 400
            /\ \/ response.status # 400
               \/ extract_text(files[side]).exc.type # "ValueError"

(***************************************************************************)
(* C10 as stated: the "No text changes detected" indicator is rendered if  *)
(* and only if the two line sequences are equal; when they differ, at      *)
(* least one Removed or Added segment is rendered, whatever the lines      *)
(* begin with.                                                             *)
(***************************************************************************)
C10_IndicatorIffEqual ==
    Compared =>
        /\ (\E k \in 1..Len(Rendered) : IsIndicator(Rendered[k]))
              <=> (original_lines = final_lines)
        /\ (original_lines # final_lines) =>
              \E k \in 1..Len(Rendered) : IsChange(Rendered[k])

====
